---- MODULE Spec2Model ----
(***************************************************************************)
(* The recording / transcription pipeline of echo (src-tauri):             *)
(*   main.rs    start_recording, stop_recording, RecordState               *)
(*   record.rs  Record::start, run on a thread of its own per begin        *)
(*   audio.rs   write_input_data, the device callback's write to the sink  *)
(*   whisper.rs transcribe; paste.rs paste: the calls that end an attempt  *)
(* A session is one call of start_recording: its channel, its worker       *)
(* thread, its input stream and its WavWriter behind Arc<Mutex<Option>>.   *)
(***************************************************************************)
EXTENDS Integers, Sequences, FiniteSets, TLC

\* ---- bounds of the model ----
\* begins issued (each spawns one worker thread)
MaxSessions == 2
\* begin and cancel commands issued in all
MaxCmds == 3
\* buffers the devices deliver to write_input_data in all
MaxBuffers == 2
\* frames in a recording handed to the transcription stage
MaxFrames == 4
\* channels of the input device's default configuration
MaxChannels == 2
\* recordings taken through the transcription stage, one after the other
MaxUtterances == 2

Sessions == 1..MaxSessions

\* Threads that call write_input_data on a session's handle. The pipeline has
\* one per stream, the device's callback thread; "other" is a second
\* concurrent caller of the same handle, used only by SinkSpec.
Callers == {"stream", "other"}

NoHolder == "free"

\* Positions of a worker thread inside Record::start (and past it).
LivePcs == {"start", "device", "create", "build", "recv", "teardown", "close",
            "stopped", "read", "resample", "transcribe", "dispatch", "complete"}
\* "done": start returned Ok. "failed": start returned Err and the thread's
\* unwrap panicked. "panicked": an expect/unwrap inside start panicked.
EndPcs == {"done", "failed", "panicked"}

\* Stage failures: the Err returns and panics of Record::start.
CaptureFailures == {"DeviceUnavailable", "StreamConfigError", "ContainerCreateError"}
TranscribeFailures == {"ContainerUnreadable", "ResampleError", "ModelLoadError",
                       "InferenceError"}

VARIABLES
    slot,        \* RecordState: 0 is None, s is Some(sender of session s)
    poisoned,    \* the RecordState mutex is poisoned
    nSessions,   \* sessions begun so far
    nCmds,       \* commands issued so far
    lastCmd,     \* what the last command did and found (observation)
    wpc,         \* worker position, "none" before the session exists
    failure,     \* the stage failure that ended / is unwinding the worker
    chan,        \* messages buffered in the session's channel
    txAlive,     \* the session's Sender still exists
    stream,      \* "none" | "playing" | "dropped"
    refs,        \* strong count of the Arc around the writer
    writerState, \* "none" | "open" | "finalized"
    finalLen,    \* length of the container when it was finalized
    sinkHolder,  \* holder of the writer's mutex
    cbpc,        \* position of each caller of write_input_data
    delivered,   \* buffers delivered to each caller
    dropped,     \* buffers each caller dropped
    written,     \* buffers appended through the session's writer
    file,        \* recorded.wav: who created it last, the buffers in it
    samplesRead, \* what the worker read back from recorded.wav
    emitted,     \* statuses the session emitted, in order
    status,      \* last status on the status channel
    lastEmit,    \* the last emission: status, the one before, who was streaming
    steps,       \* what the session's worker has done so far, in order
    utt,         \* the recording in the transcription stage and how far it got
    loads,       \* times each model file was loaded into a WhisperContext
    calls        \* calls of whisper::transcribe that returned Ok, per model

vars == <<slot, poisoned, nSessions, nCmds, lastCmd, wpc, failure, chan, txAlive,
          stream, refs, writerState, finalLen, sinkHolder, cbpc, delivered,
          dropped, written, file, samplesRead, emitted, status, lastEmit,
          steps, utt, loads, calls>>

cmdVars == <<slot, poisoned, nSessions, nCmds, lastCmd, txAlive>>
sinkVars == <<sinkHolder, cbpc, delivered, dropped, written>>
statusVars == <<emitted, status, lastEmit>>
uttVars == <<utt, loads, calls>>
sessionVars == <<cmdVars, wpc, failure, chan, stream, refs, writerState, finalLen,
                 sinkVars, file, samplesRead, statusVars, steps>>

\* Sample rates of an input device's default configuration.
Rates == {8000, 16000, 44100, 48000}
\* The model identifiers start_recording is called with.
Models == {"base", "small"}

\* No recording is in the transcription stage.
NoUtterance == [n |-> 0, pc |-> "none", frames |-> 0, sample_rate |-> 16000,
                channels |-> 1, model |-> "base", samples |-> 0, audio_data |-> 0,
                failed |-> FALSE]

NoCmd == [op |-> "none", result |-> "ok", prevOp |-> "none", busy |-> FALSE,
          active |-> FALSE, targetEnded |-> FALSE, slotChanged |-> FALSE,
          sent |-> 0, spawned |-> 0, txDropped |-> 0]

InitSessions ==
    /\ slot = 0
    /\ poisoned = FALSE
    /\ nSessions = 0
    /\ nCmds = 0
    /\ lastCmd = NoCmd
    /\ wpc = [s \in Sessions |-> "none"]
    /\ failure = [s \in Sessions |-> "none"]
    /\ chan = [s \in Sessions |-> 0]
    /\ txAlive = [s \in Sessions |-> FALSE]
    /\ stream = [s \in Sessions |-> "none"]
    /\ refs = [s \in Sessions |-> 0]
    /\ writerState = [s \in Sessions |-> "none"]
    /\ finalLen = [s \in Sessions |-> 0]
    /\ sinkHolder = [s \in Sessions |-> NoHolder]
    /\ cbpc = [s \in Sessions |-> [c \in Callers |-> "idle"]]
    /\ delivered = [s \in Sessions |-> [c \in Callers |-> 0]]
    /\ dropped = [s \in Sessions |-> [c \in Callers |-> 0]]
    /\ written = [s \in Sessions |-> 0]
    /\ file = [owner |-> 0, len |-> 0, torn |-> FALSE]
    /\ samplesRead = [s \in Sessions |-> 0]
    /\ emitted = [s \in Sessions |-> <<>>]
    /\ status = "idle"
    /\ lastEmit = [status |-> "idle", prev |-> "idle", streaming |-> FALSE]
    /\ steps = [s \in Sessions |-> <<>>]

InitUtterances ==
    /\ utt = NoUtterance
    /\ loads = [m \in Models |-> 0]
    /\ calls = [m \in Models |-> 0]

Init == InitSessions /\ InitUtterances

\* ---- derived state ----
\* The worker thread exists and has not ended: it still owns its Receiver.
Alive(s) == wpc[s] \in LivePcs
Ended(s) == wpc[s] \in EndPcs
\* CaptureSession state Streaming: the input stream exists.
Streaming(s) == stream[s] = "playing"
\* The pipeline is Recording or Transcribing for some session.
Busy == \E s \in Sessions : Alive(s)

\* ---- main.rs: the two commands ----

\* state.0.lock().unwrap(): panics when the mutex is poisoned.
LockPanics == poisoned

\* start_recording: takes the lock, makes a new channel, overwrites the slot
\* (the Sender that was in it is dropped, unsignalled) and spawns the worker.
\* There is no check of the slot or of a running session.
start_recording ==
    /\ nCmds < MaxCmds
    /\ nSessions < MaxSessions
    /\ nCmds' = nCmds + 1
    /\ IF LockPanics
       THEN /\ lastCmd' = [NoCmd EXCEPT !.op = "start", !.result = "panic",
                                        !.prevOp = lastCmd.op, !.busy = Busy,
                                        !.active = Busy]
            /\ UNCHANGED <<slot, poisoned, nSessions, wpc, chan, txAlive>>
       ELSE LET n == nSessions + 1 IN
            /\ nSessions' = n
            /\ slot' = n
            /\ txAlive' = [s \in Sessions |->
                              IF s = n THEN TRUE
                              ELSE IF s = slot THEN FALSE ELSE txAlive[s]]
            /\ chan' = [chan EXCEPT ![n] = 0]
            /\ wpc' = [wpc EXCEPT ![n] = "start"]
            /\ lastCmd' = [NoCmd EXCEPT !.op = "start", !.result = "ok",
                                        !.prevOp = lastCmd.op, !.busy = Busy,
                                        !.active = Busy, !.slotChanged = TRUE,
                                        !.spawned = n, !.txDropped = slot]
            /\ UNCHANGED poisoned
    /\ UNCHANGED <<failure, stream, refs, writerState, finalLen, sinkVars, file,
                   samplesRead, statusVars, steps, uttVars>>

\* Sender::send on an unbounded channel: Ok while the Receiver exists, Err
\* once it has been dropped (the worker thread has ended).
SendOk(s) == Alive(s)

\* A cancel that sends through the Sender and leaves it in the slot.
take_keeps(sl) == sl

\* Option::take on the slot: what is left in it, None.
take(sl) == 0

\* stop_recording: takes the lock; lock.take() empties the slot; the taken
\* Sender sends one message and is dropped. send(()).unwrap() panics when the
\* Receiver is gone, with the guard held: the mutex is poisoned.
stop_recording ==
    /\ nCmds < MaxCmds
    /\ nCmds' = nCmds + 1
    /\ IF LockPanics
       THEN /\ lastCmd' = [NoCmd EXCEPT !.op = "stop", !.result = "panic",
                                        !.prevOp = lastCmd.op, !.busy = Busy,
                                        !.active = Busy,
                                        !.targetEnded = (slot # 0 /\ Ended(slot))]
            /\ UNCHANGED <<slot, poisoned, chan, txAlive>>
       ELSE IF slot = 0
       THEN /\ lastCmd' = [NoCmd EXCEPT !.op = "stop", !.result = "ok",
                                        !.prevOp = lastCmd.op, !.busy = Busy,
                                        !.active = Busy]
            /\ UNCHANGED <<slot, poisoned, chan, txAlive>>
       ELSE /\ slot' = take(slot)
            /\ txAlive' = [txAlive EXCEPT ![slot] = FALSE]
            /\ chan' = [chan EXCEPT ![slot] = IF SendOk(slot) THEN @ + 1 ELSE @]
            /\ poisoned' = ~SendOk(slot)
            /\ lastCmd' = [NoCmd EXCEPT !.op = "stop",
                                        !.result = IF SendOk(slot) THEN "ok" ELSE "panic",
                                        !.prevOp = lastCmd.op, !.busy = Busy,
                                        !.active = Busy,
                                        !.targetEnded = Ended(slot),
                                        !.slotChanged = TRUE,
                                        !.sent = IF SendOk(slot) THEN slot ELSE 0]
    /\ UNCHANGED <<nSessions, wpc, failure, stream, refs, writerState, finalLen,
                   sinkVars, file, samplesRead, statusVars, steps, uttVars>>

\* ---- record.rs: Record::start, one worker thread per session ----

\* The worker of session s goes through the statements named in ev.
Step(s, ev) == steps' = [steps EXCEPT ![s] = @ \o ev]

\* app_handle.emit_all("change_status", ..): the status channel.
Emit(s, st) ==
    /\ status' = st
    /\ emitted' = [emitted EXCEPT ![s] = Append(@, st)]
    /\ lastEmit' = [status |-> st, prev |-> status,
                    streaming |-> \E t \in Sessions : Streaming(t)]

\* emit status "recording", play the start cue.
Record_start_emit_recording(s) ==
    /\ wpc[s] = "start"
    /\ Emit(s, "recording")
    /\ Step(s, <<"recording", "sound-start">>)
    /\ wpc' = [wpc EXCEPT ![s] = "device"]
    /\ UNCHANGED <<uttVars, cmdVars, failure, chan, stream, refs, writerState, finalLen,
                   sinkVars, file, samplesRead>>

\* default_input_device().ok_or(..)? and default_input_config()?: an Err
\* return, which the thread's unwrap turns into a panic of the worker.
Record_start_device(s) ==
    /\ wpc[s] = "device"
    /\ \E out \in {"ok", "DeviceUnavailable", "StreamConfigError"} :
          /\ failure' = [failure EXCEPT ![s] = IF out = "ok" THEN @ ELSE out]
          /\ wpc' = [wpc EXCEPT ![s] = IF out = "ok" THEN "create" ELSE "failed"]
          /\ Step(s, IF out = "ok" THEN <<"device">> ELSE <<>>)
    /\ UNCHANGED <<uttVars, cmdVars, chan, stream, refs, writerState, finalLen, sinkVars,
                   file, samplesRead, statusVars>>

\* app_data_dir().ok_or(..)?, WavWriter::create(recorded.wav)?, Arc::new,
\* writer.clone(): the file is created (truncated) at the one fixed path and
\* the writer gets two references, the worker's and the callback's.
Record_start_create(s) ==
    /\ wpc[s] = "create"
    /\ \E out \in {"ok", "ContainerCreateError"} :
          IF out = "ok"
          THEN /\ writerState' = [writerState EXCEPT ![s] = "open"]
               /\ refs' = [refs EXCEPT ![s] = 2]
               /\ file' = [owner |-> s, len |-> 0, torn |-> FALSE]
               /\ wpc' = [wpc EXCEPT ![s] = "build"]
               /\ Step(s, <<"create">>)
               /\ UNCHANGED failure
          ELSE /\ failure' = [failure EXCEPT ![s] = out]
               /\ wpc' = [wpc EXCEPT ![s] = "failed"]
               /\ UNCHANGED <<writerState, refs, file, steps>>
    /\ UNCHANGED <<uttVars, cmdVars, chan, stream, finalLen, sinkVars, samplesRead,
                   statusVars>>

\* build_input_stream(..).expect(..), stream.play().expect(..): the closure
\* holding writer_clone moves into the stream. A refusal panics: the closure
\* is gone with the call, the writer is dropped by the unwinding.
Record_start_build(s) ==
    /\ wpc[s] = "build"
    /\ \E out \in {"ok", "StreamConfigError"} :
          IF out = "ok"
          THEN /\ stream' = [stream EXCEPT ![s] = "playing"]
               /\ wpc' = [wpc EXCEPT ![s] = "recv"]
               /\ Step(s, <<"play">>)
               /\ UNCHANGED <<failure, refs>>
          ELSE /\ failure' = [failure EXCEPT ![s] = out]
               /\ refs' = [refs EXCEPT ![s] = 1]
               /\ wpc' = [wpc EXCEPT ![s] = "close"]
               /\ UNCHANGED <<stream, steps>>
    /\ UNCHANGED <<uttVars, cmdVars, chan, writerState, finalLen, sinkVars, file,
                   samplesRead, statusVars>>

\* A channel that reports the disconnect before the messages it still holds.
recv_disconnect_first(s) ==
    IF ~txAlive[s] THEN "Err" ELSE IF chan[s] > 0 THEN "Ok" ELSE "Block"

\* Receiver::recv on the channel: "Ok" with a buffered message, "Err" when the
\* channel is empty and its Sender is gone, otherwise the thread blocks.
recv(s) ==
    IF chan[s] > 0 THEN "Ok" ELSE IF ~txAlive[s] THEN "Err" ELSE "Block"

\* An unwinding that drops the writer and leaves the stream behind.
AfterRecvWriterOnly(r) == IF r = "Ok" THEN "teardown" ELSE "close"

\* Where the worker goes from recv. After Ok the next statement is
\* drop(stream). After Err the panic unwinds and drops the locals in the
\* reverse of their declaration: stream (declared last) and then writer,
\* the order of the normal path.
AfterRecv(r) == "teardown"

\* stop_record_rx.recv().expect(..): Err panics, and the unwinding drops the
\* stream and then the writer, as the normal path does.
Record_start_recv(s) ==
    /\ wpc[s] = "recv"
    /\ recv(s) # "Block"
    /\ chan' = [chan EXCEPT ![s] = IF recv(s) = "Ok" THEN @ - 1 ELSE @]
    /\ failure' = [failure EXCEPT ![s] = IF recv(s) = "Ok" THEN @ ELSE "RecvDisconnected"]
    /\ wpc' = [wpc EXCEPT ![s] = AfterRecv(recv(s))]
    /\ Step(s, IF recv(s) = "Ok" THEN <<"signal">> ELSE <<>>)
    /\ UNCHANGED <<uttVars, cmdVars, stream, refs, writerState, finalLen, sinkVars, file,
                   samplesRead, statusVars>>

\* A teardown that returns while an invocation of the callback still runs.
StreamQuiescentNoWait(s) == TRUE

\* Dropping a cpal Stream stops the device and releases the data callback:
\* the call returns once no invocation of the callback is in progress.
StreamQuiescent(s) == \A c \in Callers : cbpc[s][c] = "idle"

\* drop(stream): the stream and, with its closure, writer_clone.
Record_start_drop_stream(s) ==
    /\ wpc[s] = "teardown"
    /\ StreamQuiescent(s)
    /\ stream' = [stream EXCEPT ![s] = "dropped"]
    /\ refs' = [refs EXCEPT ![s] = @ - 1]
    /\ wpc' = [wpc EXCEPT ![s] = "close"]
    /\ Step(s, <<"drop-stream">>)
    /\ UNCHANGED <<uttVars, cmdVars, failure, chan, writerState, finalLen, sinkVars, file,
                   samplesRead, statusVars>>

\* A writer that some reference outlives: no drop is the last one.
ClosesContainerNever(r) == FALSE

\* Arc: the value is dropped with its last reference; WavWriter's Drop
\* finalizes the container (writes the lengths into the header).
ClosesContainer(r) == r = 0

\* drop(writer): the worker's reference.
Record_start_drop_writer(s) ==
    /\ wpc[s] = "close"
    /\ refs' = [refs EXCEPT ![s] = @ - 1]
    /\ IF ClosesContainer(refs[s] - 1)
       THEN /\ writerState' = [writerState EXCEPT ![s] = "finalized"]
            /\ finalLen' = [finalLen EXCEPT ![s] = written[s]]
            /\ file' = IF file.owner = s THEN file ELSE [file EXCEPT !.torn = TRUE]
            /\ Step(s, <<"drop-writer", "finalize">>)
       ELSE /\ Step(s, <<"drop-writer">>)
            /\ UNCHANGED <<writerState, finalLen, file>>
    /\ wpc' = [wpc EXCEPT ![s] = IF failure[s] = "none" THEN "stopped" ELSE "panicked"]
    /\ UNCHANGED <<uttVars, cmdVars, failure, chan, stream, sinkVars, samplesRead, statusVars>>

\* play the stop cue, emit status "transcribing".
Record_start_emit_transcribing(s) ==
    /\ wpc[s] = "stopped"
    /\ Emit(s, "transcribing")
    /\ Step(s, <<"sound-stop", "transcribing">>)
    /\ wpc' = [wpc EXCEPT ![s] = "read"]
    /\ UNCHANGED <<uttVars, cmdVars, failure, chan, stream, refs, writerState, finalLen,
                   sinkVars, file, samplesRead>>

\* The exists/is_file test only logs. WavReader::open: Err is returned;
\* otherwise all samples of recorded.wav are read. The sample count is logged
\* and never tested: an empty recording goes on to the resampler.
Record_start_read(s) ==
    /\ wpc[s] = "read"
    /\ \E out \in {"ok", "ContainerUnreadable"} :
          IF out = "ok"
          THEN /\ samplesRead' = [samplesRead EXCEPT ![s] = file.len]
               /\ wpc' = [wpc EXCEPT ![s] = "resample"]
               /\ Step(s, <<"read">>)
               /\ UNCHANGED failure
          ELSE /\ failure' = [failure EXCEPT ![s] = out]
               /\ wpc' = [wpc EXCEPT ![s] = "failed"]
               /\ UNCHANGED <<samplesRead, steps>>
    /\ UNCHANGED <<uttVars, cmdVars, chan, stream, refs, writerState, finalLen, sinkVars,
                   file, statusVars>>

\* convert(spec.sample_rate, 16000, 1, SincBestQuality, ..).unwrap()
Record_start_resample(s) ==
    /\ wpc[s] = "resample"
    /\ \E out \in {"ok", "ResampleError"} :
          /\ failure' = [failure EXCEPT ![s] = IF out = "ok" THEN @ ELSE out]
          /\ wpc' = [wpc EXCEPT ![s] = IF out = "ok" THEN "transcribe" ELSE "panicked"]
          /\ Step(s, IF out = "ok" THEN <<"convert">> ELSE <<>>)
    /\ UNCHANGED <<uttVars, cmdVars, chan, stream, refs, writerState, finalLen, sinkVars,
                   file, samplesRead, statusVars>>

\* resolve_resource(..).expect(..), whisper::transcribe: the model is loaded
\* (expect), inference runs (expect).
Record_start_transcribe(s) ==
    /\ wpc[s] = "transcribe"
    /\ \E out \in {"ok", "ModelLoadError", "InferenceError"} :
          /\ failure' = [failure EXCEPT ![s] = IF out = "ok" THEN @ ELSE out]
          /\ wpc' = [wpc EXCEPT ![s] = IF out = "ok" THEN "dispatch" ELSE "panicked"]
          /\ Step(s, IF out = "ok" THEN <<"transcribe">> ELSE <<>>)
    /\ UNCHANGED <<uttVars, cmdVars, chan, stream, refs, writerState, finalLen, sinkVars,
                   file, samplesRead, statusVars>>

\* paste(text): "Err" when the clipboard refuses the text (the ? on
\* set_contents); "Panic" when the app is trusted and CGEventSource::new or
\* CGEvent::new_keyboard_event returns Err (their unwrap); otherwise "Ok",
\* with or without the keystrokes posted.
PasteOutcomes == {"Ok", "Err", "Panic"}

\* if self.enable_paste { let _ = paste(&text); }: enable_paste is always
\* true; the returned Result is discarded, a panic inside paste unwinds the
\* worker.
Record_start_paste(s) ==
    /\ wpc[s] = "dispatch"
    /\ \E out \in PasteOutcomes :
          /\ wpc' = [wpc EXCEPT ![s] = IF out = "Panic" THEN "panicked" ELSE "complete"]
          /\ failure' = [failure EXCEPT ![s] = IF out = "Panic" THEN "DispatchPanic" ELSE @]
          /\ Step(s, IF out = "Panic" THEN <<>> ELSE <<"paste">>)
    /\ UNCHANGED <<uttVars, cmdVars, chan, stream, refs, writerState, finalLen,
                   sinkVars, file, samplesRead, statusVars>>

\* play the complete cue, emit status "idle", return Ok.
Record_start_emit_idle(s) ==
    /\ wpc[s] = "complete"
    /\ Emit(s, "idle")
    /\ Step(s, <<"sound-complete", "idle">>)
    /\ wpc' = [wpc EXCEPT ![s] = "done"]
    /\ UNCHANGED <<uttVars, cmdVars, failure, chan, stream, refs, writerState, finalLen,
                   sinkVars, file, samplesRead>>

\* Record::start from the blocking recv to its end.
Record_start_from_recv(s) ==
    \/ Record_start_recv(s)
    \/ Record_start_drop_stream(s)
    \/ Record_start_drop_writer(s)
    \/ Record_start_emit_transcribing(s)
    \/ Record_start_read(s)
    \/ Record_start_resample(s)
    \/ Record_start_transcribe(s)
    \/ Record_start_paste(s)
    \/ Record_start_emit_idle(s)

Record_start(s) ==
    \/ Record_start_emit_recording(s)
    \/ Record_start_device(s)
    \/ Record_start_create(s)
    \/ Record_start_build(s)
    \/ Record_start_from_recv(s)

\* ---- audio.rs: write_input_data ----

\* Mutex::lock in the place of try_lock: the caller waits for a held mutex.
blocking_lock(h) == IF h = NoHolder THEN "Ok" ELSE "Wait"

\* Mutex::try_lock: never waits.
try_lock(h) == IF h = NoHolder THEN "Ok" ELSE "WouldBlock"

\* The position of the caller after its attempt on the lock: holding it, or
\* back from the call with the buffer dropped; "waiting" is a thread parked
\* on the mutex.
AfterAcquire(r) ==
    IF r = "Ok" THEN "locked" ELSE IF r = "WouldBlock" THEN "idle" ELSE "waiting"

\* Buffers delivered so far, over all sessions and callers.
RECURSIVE DeliveredTo(_)
DeliveredTo(n) ==
    IF n = 0 THEN 0
    ELSE DeliveredTo(n - 1) + delivered[n]["stream"] + delivered[n]["other"]

\* A device that calls the callback again while an invocation still runs.
CallbackReentrant(s, c) == TRUE

\* The data callback is an FnMut the stream's one thread calls: a caller
\* begins an invocation only when its last one has returned.
CallbackSerial(s, c) == cbpc[s][c] = "idle"

\* One invocation, up to the lock: if let Ok(mut guard) = writer.try_lock().
\* The device delivers one buffer (not empty) to caller c of session s.
write_input_data_lock(s, c) ==
    /\ Streaming(s)
    /\ CallbackSerial(s, c)
    /\ DeliveredTo(MaxSessions) < MaxBuffers
    /\ LET r == try_lock(sinkHolder[s]) IN
       /\ delivered' = [delivered EXCEPT ![s][c] = @ + 1]
       /\ cbpc' = [cbpc EXCEPT ![s][c] = AfterAcquire(r)]
       /\ sinkHolder' = [sinkHolder EXCEPT ![s] = IF r = "Ok" THEN c ELSE @]
       /\ dropped' = [dropped EXCEPT ![s][c] = IF r = "WouldBlock" THEN @ + 1 ELSE @]
    /\ UNCHANGED <<uttVars, cmdVars, wpc, failure, chan, stream, refs, writerState, finalLen,
                   written, file, samplesRead, statusVars, steps>>

\* With the guard: if let Some(writer) = guard.as_mut() (the Option is never
\* taken, so it is Some), every sample of the buffer is written; the guard is
\* released. A buffer is one unit here: the writes are taken to succeed (an
\* Err of write_sample is discarded by .ok() and the loop goes on).
write_input_data_write(s, c) ==
    /\ cbpc[s][c] = "locked"
    /\ written' = [written EXCEPT ![s] = @ + 1]
    /\ file' = IF file.owner = s
               THEN [file EXCEPT !.len = @ + 1]
               ELSE [file EXCEPT !.torn = TRUE]
    /\ sinkHolder' = [sinkHolder EXCEPT ![s] = NoHolder]
    /\ cbpc' = [cbpc EXCEPT ![s][c] = "idle"]
    /\ UNCHANGED <<uttVars, cmdVars, wpc, failure, chan, stream, refs, writerState, finalLen,
                   delivered, dropped, samplesRead, statusVars, steps>>

write_input_data(s, c) ==
    \/ write_input_data_lock(s, c)
    \/ write_input_data_write(s, c)

\* ---- the program ----
Next ==
    \/ start_recording
    \/ stop_recording
    \/ \E s \in Sessions : Record_start(s)
    \/ \E s \in Sessions : write_input_data(s, "stream")

Spec == Init /\ [][Next]_vars

\* Scheduling: every worker is a thread of its own (std::thread::spawn) and
\* goes on whenever its next statement can run (a blocked recv cannot); the
\* device's callback thread finishes an invocation it has begun. Nothing is
\* assumed of the commands, which the user issues or not, nor of the device
\* delivering buffers.
Fairness ==
    \A s \in Sessions :
        /\ WF_vars(Record_start(s))
        /\ WF_vars(write_input_data_write(s, "stream"))

FairSpec == Spec /\ Fairness

\* ---- write_input_data under contention ----
\* One session with two threads calling write_input_data on its handle.
\* It starts with session 1 Streaming (begin issued, the worker blocked in
\* recv, nothing delivered yet: a state Spec reaches); the session can be
\* cancelled and its worker runs on as in Spec.
InitSink ==
    /\ slot = 1
    /\ poisoned = FALSE
    /\ nSessions = 1
    /\ nCmds = 1
    /\ lastCmd = [NoCmd EXCEPT !.op = "start", !.slotChanged = TRUE, !.spawned = 1]
    /\ wpc = [s \in Sessions |-> IF s = 1 THEN "recv" ELSE "none"]
    /\ failure = [s \in Sessions |-> "none"]
    /\ chan = [s \in Sessions |-> 0]
    /\ txAlive = [s \in Sessions |-> s = 1]
    /\ stream = [s \in Sessions |-> IF s = 1 THEN "playing" ELSE "none"]
    /\ refs = [s \in Sessions |-> IF s = 1 THEN 2 ELSE 0]
    /\ writerState = [s \in Sessions |-> IF s = 1 THEN "open" ELSE "none"]
    /\ finalLen = [s \in Sessions |-> 0]
    /\ sinkHolder = [s \in Sessions |-> NoHolder]
    /\ cbpc = [s \in Sessions |-> [c \in Callers |-> "idle"]]
    /\ delivered = [s \in Sessions |-> [c \in Callers |-> 0]]
    /\ dropped = [s \in Sessions |-> [c \in Callers |-> 0]]
    /\ written = [s \in Sessions |-> 0]
    /\ file = [owner |-> 1, len |-> 0, torn |-> FALSE]
    /\ samplesRead = [s \in Sessions |-> 0]
    /\ emitted = [s \in Sessions |-> IF s = 1 THEN <<"recording">> ELSE <<>>]
    /\ status = "recording"
    /\ lastEmit = [status |-> "recording", prev |-> "idle", streaming |-> FALSE]
    /\ steps = [s \in Sessions |-> IF s = 1
                     THEN <<"recording", "sound-start", "device", "create", "play">>
                     ELSE <<>>]
    /\ InitUtterances

NextSink ==
    \/ stop_recording
    \/ Record_start_from_recv(1)
    \/ \E c \in Callers : write_input_data(1, c)

SinkSpec == InitSink /\ [][NextSink]_vars

\* ---- record.rs 136-186, whisper.rs: the transcription stage ----
\* What Record::start does with a finalized recording, as a function of the
\* recording: recordings of 32-bit float samples, made with any default input
\* configuration, are taken through the stage one after the other.

\* The rate the resampler is asked for: the literal 16000.
TargetRate == 16000
\* The channel count the resampler is given: the literal 1, whatever
\* spec.channels is.
ConvertChannels == 1

\* wav_spec_from_config: the container declares the device's channel count
\* and sample rate.
wav_spec_from_config(config) ==
    [channels |-> config.channels, sample_rate |-> config.sample_rate]

\* reader.into_samples::<f32>().collect(): every sample of the data chunk,
\* the channels interleaved, frames * channels of them.
into_samples(frames, channels) == frames * channels

\* samplerate::convert(from_rate, to_rate, channels, .., input): the input is
\* taken as input_len / channels frames, the output has frames * to_rate /
\* from_rate frames of `channels` samples each; the rounding at the end of
\* the input is the library's, either way.
convert(from_rate, to_rate, channels, input_len) ==
    LET frames == input_len \div channels
        whole == (frames * to_rate) \div from_rate
    IN  IF frames = 0 THEN {0} ELSE {whole * channels, (whole + 1) * channels}

\* A recording of some length, made with some default input configuration,
\* has been finalized and the worker called with some model identifier
\* comes to read it; the worker before it has ended.
Utterance_begin ==
    /\ utt.pc \in {"none", "done", "panicked"}
    /\ utt.n < MaxUtterances
    /\ \E f \in 0..MaxFrames : \E r \in Rates : \E c \in 1..MaxChannels :
       \E m \in Models :
          LET spec == wav_spec_from_config([channels |-> c, sample_rate |-> r]) IN
          utt' = [n |-> utt.n + 1, pc |-> "read", frames |-> f,
                  sample_rate |-> spec.sample_rate, channels |-> spec.channels,
                  model |-> m, samples |-> 0, audio_data |-> 0,
                  failed |-> utt.failed]
    /\ UNCHANGED <<sessionVars, loads, calls>>

\* let spec = reader.spec(); audio_file_samples = into_samples().collect()
Utterance_read ==
    /\ utt.pc = "read"
    /\ utt' = [utt EXCEPT !.samples = into_samples(utt.frames, utt.channels),
                          !.pc = "convert"]
    /\ UNCHANGED <<sessionVars, loads, calls>>

\* audio_data = convert(spec.sample_rate, 16000, 1, SincBestQuality,
\* &audio_file_samples).unwrap()
Utterance_convert ==
    /\ utt.pc = "convert"
    /\ \/ \E len \in convert(utt.sample_rate, TargetRate, ConvertChannels, utt.samples) :
             utt' = [utt EXCEPT !.audio_data = len, !.pc = "transcribe"]
       \/ utt' = [utt EXCEPT !.pc = "panicked", !.failed = TRUE]
    /\ UNCHANGED <<sessionVars, loads, calls>>

\* whisper::transcribe(audio_data, model_path): every call makes a
\* WhisperContext from the model file (expect), then runs the inference
\* (expect) and returns the text.
transcribe ==
    /\ utt.pc = "transcribe"
    /\ \E out \in {"ok", "ModelLoadError", "InferenceError"} :
          /\ loads' = [loads EXCEPT ![utt.model] =
                          IF out = "ModelLoadError" THEN @ ELSE @ + 1]
          /\ calls' = [calls EXCEPT ![utt.model] = IF out = "ok" THEN @ + 1 ELSE @]
          /\ utt' = [utt EXCEPT !.pc = IF out = "ok" THEN "done" ELSE "panicked",
                                !.failed = @ \/ out # "ok"]
    /\ UNCHANGED sessionVars

NextTranscribe ==
    \/ Utterance_begin
    \/ Utterance_read
    \/ Utterance_convert
    \/ transcribe

TranscribeSpec == Init /\ [][NextTranscribe]_vars

\* ---- the claims ----

InSeq(x, q) == \E i \in 1..Len(q) : q[i] = x

\* C1: a begin issued while a session is Recording or Transcribing is
\* rejected with SessionBusyError: it spawns no worker, leaves the slot as it
\* was and drops nobody's cancellation sender.
BusyBeginRejected ==
    (lastCmd.op = "start" /\ lastCmd.busy)
        => /\ lastCmd.result = "busy"
           /\ lastCmd.spawned = 0
           /\ lastCmd.txDropped = 0
           /\ ~lastCmd.slotChanged

\* C2: at most one capture session is active: never two workers that each
\* hold an input stream and an open writer on the recording container.
AtMostOneCapture ==
    Cardinality({s \in Sessions : Streaming(s) /\ writerState[s] = "open"}) <= 1

\* C3: a cancel issued when no session is active, or right after another
\* cancel, is a no-op: it returns without error, sends no signal and leaves
\* the slot as it was.
CancelIsNoOp ==
    (lastCmd.op = "stop" /\ (~lastCmd.active \/ lastCmd.prevOp = "stop"))
        => /\ lastCmd.result = "ok"
           /\ lastCmd.sent = 0
           /\ ~lastCmd.slotChanged

\* C4: a cancel whose target session has already ended returns without
\* error, and the lock around the slot stays usable.
CancelAfterEndSafe ==
    /\ (lastCmd.op = "stop" /\ lastCmd.targetEnded) => lastCmd.result = "ok"
    /\ ~poisoned

\* C5: an attempt that emitted Recording and was ended by a stage failure
\* has emitted Idle.
FailureReturnsToIdle ==
    \A s \in Sessions :
        (Ended(s) /\ failure[s] \in CaptureFailures \cup TranscribeFailures
                  /\ InSeq("recording", emitted[s]))
            => InSeq("idle", emitted[s])

\* The worker has run the resampler (and maybe the transcriber).
ResampleEntered(s) ==
    \/ wpc[s] \in {"transcribe", "dispatch", "complete", "done"}
    \/ failure[s] \in {"ResampleError", "ModelLoadError", "InferenceError",
                      "DispatchPanic"}

\* The session was cancelled by a signal before any buffer was delivered and
\* its container has been finalized.
CancelledEmpty(s) ==
    /\ writerState[s] = "finalized"
    /\ failure[s] \notin CaptureFailures \cup {"RecvDisconnected"}
    /\ \A c \in Callers : delivered[s][c] = 0

\* C6: a session cancelled before any buffer was captured has a recording
\* of zero samples, and the resample and transcribe stages are not entered
\* for it.
EmptyRecordingNotTranscribed ==
    \A s \in Sessions :
        CancelledEmpty(s) => (finalLen[s] = 0 /\ ~ResampleEntered(s))

\* C7: a session whose cancellation sender was dropped without a signal
\* while it was Streaming does not fail on it: the disconnect is taken as a
\* cancellation.
DroppedSenderIsCancel ==
    \A s \in Sessions : failure[s] # "RecvDisconnected"

StatusStep(prev, cur) ==
    \/ cur = prev
    \/ <<prev, cur>> \in {<<"idle", "recording">>, <<"recording", "transcribing">>,
                         <<"transcribing", "idle">>}

\* C8: the statuses emitted follow the cycle Idle -> Recording ->
\* Transcribing -> Idle (repeats allowed), and Idle is not emitted while a
\* capture session is Streaming.
StatusCycle ==
    /\ StatusStep(lastEmit.prev, lastEmit.status)
    /\ lastEmit.status = "idle" => ~lastEmit.streaming

\* C9: write_input_data never blocks: no caller is ever waiting for the
\* sink lock, a caller is past the attempt only as the holder, and a call
\* that finds the lock held drops its whole buffer and returns at once.
WriteNeverBlocks ==
    /\ [](\A s \in Sessions : \A c \in Callers :
            /\ cbpc[s][c] \in {"idle", "locked"}
            /\ cbpc[s][c] = "locked" <=> sinkHolder[s] = c)
    /\ [][\A s \in Sessions : \A c \in Callers :
            (delivered'[s][c] # delivered[s][c] /\ sinkHolder[s] # NoHolder)
                => /\ cbpc'[s][c] = "idle"
                   /\ dropped'[s][c] = dropped[s][c] + 1
                   /\ written'[s] = written[s]
                   /\ sinkHolder'[s] = sinkHolder[s]]_vars

\* C9 witness: a caller found the lock held by the other caller, dropped its
\* buffer and is back from the call while the other still holds the lock.
ContendedWriteDropped ==
    \E c \in Callers : \E d \in Callers :
        /\ c # d
        /\ dropped[1][c] > 0
        /\ cbpc[1][c] = "idle"
        /\ cbpc[1][d] = "locked"

\* C10: once a session's sink is finalized nothing more is appended to its
\* container: at the close the stream is gone, no write is in progress, the
\* lock is free, and what was written is what the header recorded.
FinalizeAfterLastWrite ==
    \A s \in Sessions :
        writerState[s] = "finalized"
            => /\ ~Streaming(s)
               /\ \A c \in Callers : cbpc[s][c] = "idle"
               /\ sinkHolder[s] = NoHolder
               /\ refs[s] = 0
               /\ written[s] = finalLen[s]

\* C10 witness: a session accepted a buffer and was then finalized.
FinalizedWithSamples ==
    \E s \in Sessions : writerState[s] = "finalized" /\ finalLen[s] > 0

\* The session's container is closed and its worker has not yet read it back.
ClosedUnread(s) ==
    /\ writerState[s] = "finalized"
    /\ wpc[s] \in {"stopped", "read"}

\* C11: from the close of a session's recording until its worker has read
\* it, recorded.wav is that session's and holds what was finalized: nobody,
\* the worker of a later begin included, created it again, truncated it or
\* appended to it; and what the worker then reads is what was finalized.
FinalizedRecordingReadOnly ==
    \A s \in Sessions :
        /\ ClosedUnread(s)
              => (file.owner = s /\ ~file.torn /\ file.len = finalLen[s])
        /\ (writerState[s] = "finalized" /\ ResampleEntered(s))
              => samplesRead[s] = finalLen[s]

\* C12: the sequence handed to transcription has F * 16000 / R samples
\* within one sample, for a recording of F frames at rate R, whatever its
\* channel count.
NormalizedLengthByDuration ==
    utt.pc = "transcribe"
        => LET d == utt.audio_data * utt.sample_rate - utt.frames * TargetRate
           IN  d <= utt.sample_rate /\ -d <= utt.sample_rate

\* Some attempt was ended by a stage failure.
SomeAttemptFailed == \E s \in Sessions : Ended(s) /\ failure[s] # "none"

\* C13: a failed attempt is contained in its worker thread: after it no
\* command panics, and the lock around the slot stays usable, so that a
\* later begin starts a session and a later cancel reaches it.
AttemptFailureContained ==
    SomeAttemptFailed => (lastCmd.result # "panic" /\ ~LockPanics)

\* The statement that comes right before each statement of an attempt, in
\* the order the pipeline prescribes ("none": it is the first). The
\* finalize is the effect of the drop of the writer that closes the
\* container; the writer is dropped without the stream only when the stream
\* was never built, and the stream without the signal only by a panic.
PrescribedOrder ==
    {<<"none", "recording">>, <<"recording", "sound-start">>,
     <<"sound-start", "device">>, <<"device", "create">>, <<"create", "play">>,
     <<"play", "signal">>, <<"signal", "drop-stream">>, <<"play", "drop-stream">>,
     <<"drop-stream", "drop-writer">>, <<"create", "drop-writer">>,
     <<"drop-writer", "finalize">>, <<"finalize", "sound-stop">>,
     <<"sound-stop", "transcribing">>, <<"transcribing", "read">>,
     <<"read", "convert">>, <<"convert", "transcribe">>,
     <<"transcribe", "paste">>, <<"paste", "sound-complete">>,
     <<"sound-complete", "idle">>}

\* C14: the order of the steps of an attempt: Recording and the start cue
\* before the stream is started; after the cancel signal the stream dropped
\* and the sink finalized, then the stop cue and Transcribing; reading,
\* resampling and transcription after the finalize; dispatch after
\* transcription; the complete cue and Idle last, and with them the attempt
\* has returned.
StepOrder ==
    \A s \in Sessions :
        LET q == steps[s] IN
        /\ \A i \in 1..Len(q) :
              <<IF i = 1 THEN "none" ELSE q[i - 1], q[i]>> \in PrescribedOrder
        /\ wpc[s] = "done" <=> (Len(q) > 0 /\ q[Len(q)] = "idle")
        /\ (Len(q) > 0 /\ q[Len(q)] \in {"sound-stop", "transcribing"})
              => (writerState[s] = "finalized" /\ stream[s] = "dropped")

\* C14 witness: an attempt that recorded something went through all its
\* steps and returned.
SuccessfulAttempt ==
    \E s \in Sessions :
        /\ wpc[s] = "done"
        /\ finalLen[s] > 0
        /\ InSeq("paste", steps[s])
        /\ Len(steps[s]) = 17

\* The session had an input stream.
HadStream(s) == stream[s] # "none"

\* C15: on every path that leaves Streaming, by the cancel signal or by the
\* worker's panic, the stream and its callback are dropped before the
\* worker's reference to the sink: while the stream exists the container is
\* open and the callback holds its reference; the worker's reference is
\* dropped only after the stream, is then the last one, and its drop closes
\* the container with no invocation of the callback running.
TeardownBeforeFinalize ==
    \A s \in Sessions :
        /\ Streaming(s) => (writerState[s] = "open" /\ refs[s] = 2)
        /\ (HadStream(s) /\ wpc[s] = "close") => (stream[s] = "dropped" /\ refs[s] = 1)
        /\ (HadStream(s) /\ wpc[s] \notin {"recv", "teardown", "close"})
              => /\ stream[s] = "dropped"
                 /\ writerState[s] = "finalized"
                 /\ refs[s] = 0
        /\ (HadStream(s) /\ ~Streaming(s)) => \A c \in Callers : cbpc[s][c] = "idle"

\* C15 witness: a session left Streaming by the panic at recv (its sender
\* was dropped), after accepting a buffer, and its container was closed.
PanicPathFinalized ==
    \E s \in Sessions :
        /\ failure[s] = "RecvDisconnected"
        /\ wpc[s] = "panicked"
        /\ writerState[s] = "finalized"
        /\ finalLen[s] > 0

\* Buffers the session's callers were given, dropped, and hold under the lock.
Given(s) == delivered[s]["stream"] + delivered[s]["other"]
Dropped(s) == dropped[s]["stream"] + dropped[s]["other"]
InHand(s) == Cardinality({c \in Callers : cbpc[s][c] = "locked"})

\* C16: the container holds the accepted buffers and nothing else: every
\* delivered buffer was dropped whole or is appended whole by the caller
\* that accepted it, and recorded.wav is, in order, what the writer of the
\* session that created it appended.
ContainerIsAcceptedBuffers ==
    /\ \A s \in Sessions : written[s] + InHand(s) + Dropped(s) = Given(s)
    /\ file.owner # 0 => (~file.torn /\ file.len = written[file.owner])

\* C17: an attempt whose transcription succeeded ends by returning success
\* with the complete cue played and Idle emitted, whatever the dispatch of
\* the text did.
DispatchFailureReachesIdle ==
    \A s \in Sessions :
        (Ended(s) /\ InSeq("transcribe", steps[s]))
            => /\ wpc[s] = "done"
               /\ InSeq("sound-complete", steps[s])
               /\ InSeq("idle", emitted[s])

\* C18: a session that started its stream stays at its blocking receive,
\* Streaming, until it has received a cancel signal: whatever else happens,
\* a later begin included, does not take it out of Streaming.
StreamingUntilSignal ==
    \A s \in Sessions :
        (InSeq("play", steps[s]) /\ ~InSeq("signal", steps[s]))
            => (wpc[s] = "recv" /\ Streaming(s))

\* C19: over successive successful attempts a model is loaded at most once,
\* however many times transcribe was called with it.
ModelLoadedOnce ==
    ~utt.failed => \A m \in Models : loads[m] <= 1

\* The stage failures of the taxonomy, with the panic inside paste.
StageFailures == CaptureFailures \cup TranscribeFailures \cup {"DispatchPanic"}

\* C20: a cancel is never lost: a signal sent to a session, at whatever
\* point of its worker, stays in the channel until the worker receives it;
\* the worker then leaves Streaming, and the session emits Idle unless a
\* stage fails.
CancelNeverLost ==
    \A s \in Sessions :
        (chan[s] > 0) ~> (InSeq("idle", emitted[s]) \/ failure[s] \in StageFailures)

\* C20 witness: the signal is in the channel of a session whose worker has
\* not yet opened the device or started the stream.
EarlyCancelBuffered ==
    \E s \in Sessions :
        /\ chan[s] > 0
        /\ wpc[s] \in {"start", "device", "create", "build"}
        /\ lastCmd.op = "stop"
        /\ lastCmd.sent = s

\* Signals sent to session s so far: the one in its channel or the one its
\* worker has received.
SignalsSent(s) == chan[s] + (IF InSeq("signal", steps[s]) THEN 1 ELSE 0)

\* C21: each session is sent at most one cancel signal, by the one Sender
\* that is then gone; the slot holds nothing or the Sender of the session
\* begun last, so a cancel signals that session or nobody, never a session
\* begun before it.
OneSignalToLatest ==
    /\ \A s \in Sessions : SignalsSent(s) <= 1
    /\ \A s \in Sessions : SignalsSent(s) = 1 => (~txAlive[s] /\ slot # s)
    /\ slot \in {0, nSessions}
    /\ lastCmd.op = "stop" => lastCmd.sent \in {0, nSessions}

\* C21 witness: after two begins a cancel signalled the second session, and
\* the first, still running, has no signal.
LaterSessionSignalled ==
    /\ nSessions = 2
    /\ lastCmd.op = "stop"
    /\ lastCmd.sent = 2
    /\ SignalsSent(2) = 1
    /\ Alive(1)
    /\ SignalsSent(1) = 0

====
